---- MODULE Spec2Model ----
(***************************************************************************)
(* The streaming chat turn of process_message.py.                          *)
(*                                                                         *)
(* stream_chat_message_objects is a generator: it runs from one yield to   *)
(* the next each time the consumer asks for a packet, and the consumer may *)
(* close it while it is suspended at a yield.  A turn owns one database    *)
(* session (stream_chat_message opens it); writes are pending in the       *)
(* session until db_session.commit() and are invisible to other sessions   *)
(* until then.                                                             *)
(***************************************************************************)
EXTENDS Integers, Sequences, FiniteSets, TLC

\* Bounds of the model.
MaxEvents == 2
MaxEventsConcurrent == 1
MaxUrls == 2

Turns == {1, 2}

\* Python's None where an id is expected, and the id of the root message.
NoId == -1
RootId == 0

VARIABLES
    committed,   \* the messages every session can read (committed rows)
    db_session,  \* per turn: [open, pending]: the session and its uncommitted rows
    nextId,      \* the store's id sequence
    req,         \* per turn: the call's arguments
    turn,        \* per turn: the generator's position and local variables
    limit,       \* how many answer-engine events a turn may consume
    classifier,  \* one exception on its way through a handler, with its text
    docloop,     \* the loop's document variables, with the documents themselves
    pruning      \* the choice of the documents the answer is built on

vars == <<committed, db_session, nextId, req, turn, limit, classifier, docloop, pruning>>

----------------------------------------------------------------------------
\* The message tree.

RootMsg ==
    [id |-> RootId, parent |-> NoId, type |-> "SYSTEM", by |-> 0,
     files |-> {}, tool_calls |-> {}]
SeedUser ==
    [id |-> 1, parent |-> RootId, type |-> "USER", by |-> 0,
     files |-> {}, tool_calls |-> {}]
SeedAssistant ==
    [id |-> 2, parent |-> 1, type |-> "ASSISTANT", by |-> 0,
     files |-> {}, tool_calls |-> {}]

\* Conversations a turn can start on: a fresh one, a seeded one whose leaf
\* is a user message, and one with a completed earlier turn.
InitialStores == {{RootMsg}, {RootMsg, SeedUser}, {RootMsg, SeedUser, SeedAssistant}}

SetMax(S) == CHOOSE x \in S : \A y \in S : y <= x
SetMin(S) == CHOOSE x \in S : \A y \in S : x <= y

Ids(msgs) == {m.id : m \in msgs}
MsgOf(msgs, id) == CHOOSE m \in msgs : m.id = id
Children(msgs, id) == {m.id : m \in {x \in msgs : x.parent = id}}

\* What a session reads: the committed rows and its own pending rows.
View(t) == committed \cup db_session[t].pending

\* The resolver's walk from the root to the mainline leaf: at a message with
\* several children the branch that existed first stays the mainline.
RECURSIVE Walk(_, _)
Walk(msgs, id) ==
    IF Children(msgs, id) = {} THEN id
    ELSE Walk(msgs, SetMin(Children(msgs, id)))

create_chat_chain(msgs) == Walk(msgs, RootId)

create_new_chat_message(id, parent, type, t, files, tool_calls) ==
    [id |-> id, parent |-> parent, type |-> type, by |-> t,
     files |-> files, tool_calls |-> tool_calls]

\* The store as one session has it in hand: what is committed and what the
\* session holds pending.
Db(t) == [committed |-> committed, pending |-> db_session[t].pending]

\* db_session.add of a message created with commit=False (line 220, line 332).
\* (AddCommitted: the same with commit=True.)
AddCommitted(db, msg) ==
    [committed |-> db.committed \cup db.pending \cup {msg}, pending |-> {}]
Add(db, msg) == [db EXCEPT !.pending = @ \cup {msg}]

\* db_session.rollback() (lines 227 and 582) and db_session.commit() (line 621).
\* (commit_nothing: a commit that writes no row.)
rollback(db) == [db EXCEPT !.pending = {}]
commit_nothing(db) == db
commit(db) == [committed |-> db.committed \cup db.pending, pending |-> {}]

SetDb(t, db) ==
    /\ committed' = db.committed
    /\ db_session' = [db_session EXCEPT ![t].pending = db.pending]

----------------------------------------------------------------------------
\* Requests.

ParentIds == {NoId, 1, 2}

Requests ==
    [parent_message_id : ParentIds,
     search_doc_ids : {"None", "empty", "ids"},
     retrieval_options : {"None", "set"},
     use_existing_user_message : BOOLEAN]

DefaultRequest ==
    [parent_message_id |-> NoId, search_doc_ids |-> "None",
     retrieval_options |-> "set", use_existing_user_message |-> FALSE]

\* Line 163: neither a set of documents nor search options.
\* (MustSpecifyUnchecked: the check left out.)
MustSpecifyUnchecked(r) == FALSE
MustSpecify(r) == r.search_doc_ids = "None" /\ r.retrieval_options = "None"

----------------------------------------------------------------------------
\* Packets and exceptions.

Packet(kind, info) == [kind |-> kind, info |-> info, file_ids |-> {}]
StreamingError(msg) == Packet("StreamingError", msg)
FinalMessageDetail == Packet("FinalMessageDetail", "-")

\* What the handler reads of an exception's text: whether it holds the
\* malformed-bearer marker, the header-encoding marker, the API key.
ErrTexts == [bearer : BOOLEAN, encoding : BOOLEAN, key : BOOLEAN]
PlainText == [bearer |-> FALSE, encoding |-> FALSE, key |-> FALSE]

\* Lines 563-579.
\* (ClassifyKeyFirst: the test of line 576 before the two marker tests.)
ClassifyKeyFirst(text, api_key_set) ==
    IF api_key_set /\ text.key THEN "InvalidApiKey"
    ELSE IF text.bearer THEN "AuthInvalidOrEmptyKey"
    ELSE IF text.encoding THEN "AuthInvalidKeyFormat"
    ELSE "Unexpected"
Classify(text, api_key_set) ==
    IF text.bearer THEN "AuthInvalidOrEmptyKey"
    ELSE IF text.encoding THEN "AuthInvalidKeyFormat"
    ELSE IF api_key_set /\ text.key THEN "InvalidApiKey"
    ELSE "Unexpected"

\* Lines 559-583 up to the yield.  Every branch of the classification reads
\* llm, so with llm not yet assigned the handler itself raises
\* UnboundLocalError, which leaves the generator.
\* (HandlerReraise: the exception is not caught at all.)
HandlerReraise(tr, kind, text, api_key_set) ==
    [tr EXCEPT !.pc = "raised", !.err = kind]
Handler(tr, kind, text, api_key_set) ==
    IF tr.llm_bound
    THEN [tr EXCEPT !.pc = "errYield", !.err = kind,
                    !.packets = Append(@, StreamingError(Classify(text, api_key_set)))]
    ELSE [tr EXCEPT !.pc = "raised", !.err = kind]

\* An exception of the generation phase reaching `except Exception`.
Raise(t, kind, texts) ==
    \E text \in texts, api_key_set \in BOOLEAN :
        turn' = [turn EXCEPT ![t] = Handler(turn[t], kind, text, api_key_set)]

Goto(t, pc) == turn' = [turn EXCEPT ![t].pc = pc]

----------------------------------------------------------------------------
\* Initial states.

NewTurn(pc, msgs) ==
    [pc |-> pc, llm_bound |-> FALSE, err |-> "none",
     parent_message |-> NoId, prior_leaf |-> NoId,
     user_message |-> NoId, final_msg |-> NoId,
     consumed |-> <<>>, packets |-> <<>>,
     reference_db_search_docs |-> FALSE,
     ai_message_files |-> {}, tool_result |-> 0,
     closed_at |-> "none", closed_len |-> 0,
     count0 |-> Cardinality(msgs)]

NewSession == [open |-> TRUE, pending |-> {}]

\* The variables of the two detailed views, where they are not looked at.
NoException == [stage |-> "none"]
NoDocLoop == [stage |-> "none"]
NoPruning == [stage |-> "none"]

Init ==
    /\ committed \in InitialStores
    /\ nextId = SetMax(Ids(committed)) + 1
    /\ db_session = [t \in Turns |-> NewSession]
    /\ \E r \in Requests : req = [t \in Turns |-> IF t = 1 THEN r ELSE DefaultRequest]
    /\ turn = [t \in Turns |-> NewTurn(IF t = 1 THEN "start" ELSE "off", committed)]
    /\ limit = MaxEvents
    /\ classifier = NoException
    /\ docloop = NoDocLoop
    /\ pruning = NoPruning

----------------------------------------------------------------------------
\* The generation phase (lines 132-557), one action per stretch of code
\* between two points where the outcome depends on the environment.

AnyText == ErrTexts

\* Lines 133-161: the chat session and the persona are looked up.
GetSession(t) ==
    /\ turn[t].pc = "start"
    /\ \/ Goto(t, "check")
       \/ Raise(t, "SessionLookup", AnyText)
    /\ UNCHANGED <<committed, db_session, nextId, req, limit, classifier, docloop, pruning>>

\* Lines 163-166.
CheckDocsOrOptions(t) ==
    /\ turn[t].pc = "check"
    /\ IF MustSpecify(req[t])
       THEN Raise(t, "NoDocsOrOptions", {PlainText})
       ELSE Goto(t, "llm")
    /\ UNCHANGED <<committed, db_session, nextId, req, limit, classifier, docloop, pruning>>

\* Lines 168-177: llm is assigned only if get_llms_for_persona returns.
GetLlms(t) ==
    /\ turn[t].pc = "llm"
    /\ \/ turn' = [turn EXCEPT ![t].pc = "parent", ![t].llm_bound = TRUE]
       \/ Raise(t, "LLMDisabled", {PlainText})
    /\ UNCHANGED <<committed, db_session, nextId, req, limit, classifier, docloop, pruning>>

\* Lines 194-205: the parent is the root unless the request names one.
GetParent(t) ==
    /\ turn[t].pc = "parent"
    /\ LET parent_id == req[t].parent_message_id IN
       IF parent_id = NoId
       THEN turn' = [turn EXCEPT ![t].pc = "chain", ![t].parent_message = RootId]
       ELSE IF parent_id \in Ids(View(t))
       THEN turn' = [turn EXCEPT ![t].pc = "chain", ![t].parent_message = parent_id]
       ELSE Raise(t, "ParentLookup", AnyText)
    /\ UNCHANGED <<committed, db_session, nextId, req, limit, classifier, docloop, pruning>>

\* Line 226: the re-walked mainline must end at the new message.
\* (NotOnMainlineUnchecked: the comparison left out.)
NotOnMainlineUnchecked(final, user_message) == FALSE
NotOnMainline(final, user_message) == final # user_message

\* Lines 208-234: the user message is inserted uncommitted and the chain
\* re-walked; off the mainline, the insert is rolled back before the raise.
CreateUserMessage(t) ==
    /\ turn[t].pc = "chain"
    /\ ~req[t].use_existing_user_message
    /\ LET msg == create_new_chat_message(nextId, turn[t].parent_message, "USER", t, {}, {})
           seen == View(t) \cup {msg}
           final == create_chat_chain(seen)
           tr == [turn[t] EXCEPT !.prior_leaf = create_chat_chain(View(t))]
       IN
       /\ nextId' = nextId + 1
       /\ IF NotOnMainline(final, msg.id)
          THEN /\ SetDb(t, rollback(Add(Db(t), msg)))
               /\ \E api_key_set \in BOOLEAN :
                     turn' = [turn EXCEPT ![t] =
                                 Handler(tr, "ChainIntegrity", PlainText, api_key_set)]
          ELSE /\ SetDb(t, Add(Db(t), msg))
               /\ turn' = [turn EXCEPT ![t] =
                             [tr EXCEPT !.pc = "files", !.user_message = msg.id,
                                        !.final_msg = final]]
    /\ UNCHANGED <<req, limit, classifier, docloop, pruning>>

\* Line 240: only a user message can be answered again.
\* (NotAUserMessageUnchecked: the test left out.)
NotAUserMessageUnchecked(final_msg) == FALSE
NotAUserMessage(final_msg) == final_msg.type # "USER"

\* Lines 235-245: the regeneration flow answers the existing leaf.
UseExistingUserMessage(t) ==
    /\ turn[t].pc = "chain"
    /\ req[t].use_existing_user_message
    /\ LET final == create_chat_chain(View(t))
           tr == [turn[t] EXCEPT !.prior_leaf = final]
       IN
       IF NotAUserMessage(MsgOf(View(t), final))
       THEN \E api_key_set \in BOOLEAN :
               turn' = [turn EXCEPT ![t] =
                           Handler(tr, "InvalidRegeneration", PlainText, api_key_set)]
       ELSE turn' = [turn EXCEPT ![t].pc = "files", ![t].final_msg = final,
                                 ![t].prior_leaf = final]
    /\ UNCHANGED <<committed, db_session, nextId, req, limit, classifier, docloop, pruning>>

\* Lines 256-273: the files of the chain are loaded and attached.
LoadFiles(t) ==
    /\ turn[t].pc = "files"
    /\ \/ Goto(t, "prompt")
       \/ Raise(t, "Files", AnyText)
    /\ UNCHANGED <<committed, db_session, nextId, req, limit, classifier, docloop, pruning>>

\* Lines 335-347.
CheckPrompt(t) ==
    /\ turn[t].pc = "prompt"
    /\ \/ Goto(t, "tools")
       \/ Raise(t, "NoPrompt", {PlainText})
    /\ UNCHANGED <<committed, db_session, nextId, req, limit, classifier, docloop, pruning>>

\* Lines 349-476: the persona's tools are built, then the answer engine.
ConfigureTools(t) ==
    /\ turn[t].pc = "tools"
    /\ \/ Goto(t, "loop")
       \/ Raise(t, "ImageCredential", {PlainText})
       \/ Raise(t, "InternetSearchKey", {PlainText})
       \/ Raise(t, "ToolConfiguration", AnyText)
    /\ UNCHANGED <<committed, db_session, nextId, req, limit, classifier, docloop, pruning>>

EventKinds ==
    {"search_summary", "section_relevance", "image_generation", "internet_search",
     "custom_tool", "other_tool", "answer_piece", "tool_call_final_result"}

\* Line 528: one new file id for each URL of the image event at place pos.
save_files_from_urls(pos, urls) == {<<pos, j>> : j \in 1..urls}

\* Line 535.
ImageGenerationDisplay(file_ids) ==
    [kind |-> "ImageGenerationDisplay", info |-> "-", file_ids |-> file_ids]

\* Lines 484-557: the packets one answer-engine event yields.
\* (PacketsOfTwice: an untagged packet is passed on twice.)
PacketsOfTwice(tr, e, file_ids) ==
    CASE e = "search_summary" -> <<Packet("QADocsResponse", "search")>>
      [] e = "section_relevance" ->
            IF tr.reference_db_search_docs
            THEN <<Packet("LLMRelevanceFilterResponse", "-")>> ELSE <<>>
      [] e = "image_generation" -> <<ImageGenerationDisplay(file_ids)>>
      [] e = "internet_search" -> <<Packet("QADocsResponse", "internet")>>
      [] e = "custom_tool" -> <<Packet("CustomToolResponse", "-")>>
      [] e = "other_tool" -> <<>>
      [] OTHER -> <<Packet(e, "-"), Packet(e, "-")>>
PacketsOf(tr, e, file_ids) ==
    CASE e = "search_summary" -> <<Packet("QADocsResponse", "search")>>
      [] e = "section_relevance" ->
            IF tr.reference_db_search_docs
            THEN <<Packet("LLMRelevanceFilterResponse", "-")>> ELSE <<>>
      [] e = "image_generation" -> <<ImageGenerationDisplay(file_ids)>>
      [] e = "internet_search" -> <<Packet("QADocsResponse", "internet")>>
      [] e = "custom_tool" -> <<Packet("CustomToolResponse", "-")>>
      [] e = "other_tool" -> <<>>
      [] OTHER -> <<Packet(e, "-")>>

InLoop(t) == turn[t].pc \in {"loop", "yielded"}

\* One iteration of the loop at line 483: the generator stops at the yield
\* if the event gives a packet and goes on to the next event if not.
NextEvent(t) ==
    /\ InLoop(t)
    /\ Len(turn[t].consumed) < limit
    /\ \E e \in EventKinds, urls \in 1..MaxUrls :
          LET pos == Len(turn[t].consumed) + 1
              file_ids == IF e = "image_generation"
                          THEN save_files_from_urls(pos, urls) ELSE {}
              out == PacketsOf(turn[t], e, file_ids)
          IN
          turn' = [turn EXCEPT
                     ![t].consumed = Append(@, e),
                     ![t].packets = @ \o out,
                     ![t].reference_db_search_docs =
                         @ \/ e \in {"search_summary", "internet_search"},
                     ![t].ai_message_files =
                         IF e = "image_generation" THEN file_ids ELSE @,
                     ![t].tool_result =
                         IF e = "tool_call_final_result" THEN pos ELSE @,
                     ![t].pc = IF out = <<>> THEN "loop" ELSE "yielded"]
    /\ UNCHANGED <<committed, db_session, nextId, req, limit, classifier, docloop, pruning>>

\* The answer engine, or the handling of its event, raises.
EventRaises(t) ==
    /\ InLoop(t)
    /\ Raise(t, "AnswerEngine", AnyText)
    /\ UNCHANGED <<committed, db_session, nextId, req, limit, classifier, docloop, pruning>>

\* The event stream is exhausted: the try block of line 132 is left.
EndOfEvents(t) ==
    /\ InLoop(t)
    /\ Goto(t, "persist")
    /\ UNCHANGED <<committed, db_session, nextId, req, limit, classifier, docloop, pruning>>

\* Lines 582-583: resumed after the StreamingError packet.
\* (AfterStreamingErrorNoReturn: without the return of line 583;
\* AfterStreamingErrorNoRollback: without the rollback of line 582.)
AfterStreamingErrorNoReturn(t) ==
    /\ turn[t].pc = "errYield"
    /\ SetDb(t, rollback(Db(t)))
    /\ Goto(t, "persist")
    /\ UNCHANGED <<nextId, req, limit, classifier, docloop, pruning>>
AfterStreamingErrorNoRollback(t) ==
    /\ turn[t].pc = "errYield"
    /\ Goto(t, "done")
    /\ UNCHANGED <<committed, db_session, nextId, req, limit, classifier, docloop, pruning>>
AfterStreamingError(t) ==
    /\ turn[t].pc = "errYield"
    /\ SetDb(t, rollback(Db(t)))
    /\ Goto(t, "done")
    /\ UNCHANGED <<nextId, req, limit, classifier, docloop, pruning>>

----------------------------------------------------------------------------
\* The persistence phase (lines 585-632).

PersistFailures == {"none", "build", "commit", "detail"}

\* Lines 610-620: one ToolCall record if tool_result is set, else none.  A
\* record is named by the place in the event stream of the result it is of.
tool_calls(tr) == IF tr.tool_result # 0 THEN {tr.tool_result} ELSE {}

\* Lines 322, 327 and 608-620: the reply is an assistant message under
\* final_msg, with the staged files and the tool call.
\* (partial_response_of_parent: under parent_message instead.)
partial_response_of_parent(id, tr, t) ==
    create_new_chat_message(id, tr.parent_message, "ASSISTANT", t,
                            tr.ai_message_files, tool_calls(tr))
partial_response(id, tr, t) ==
    create_new_chat_message(id, tr.final_msg, "ASSISTANT", t,
                            tr.ai_message_files, tool_calls(tr))

\* Lines 586-632 up to the yield.  The assistant message is built pending,
\* everything pending is committed at once, and the committed message is
\* translated and yielded; a failure at any of the three steps yields the
\* StreamingError of line 632, with no rollback.
Persist(t) ==
    /\ turn[t].pc = "persist"
    /\ \E fail \in PersistFailures :
          LET gen_ai_response_message == partial_response(nextId, turn[t], t)
              built == Add(Db(t), gen_ai_response_message)
          IN
          /\ nextId' = IF fail = "build" THEN nextId ELSE nextId + 1
          /\ SetDb(t, CASE fail = "build" -> Db(t)
                        [] fail = "commit" -> built
                        [] OTHER -> commit(built))
          /\ turn' =
                IF fail = "none"
                THEN [turn EXCEPT ![t].pc = "finalYield",
                                  ![t].packets = Append(@, FinalMessageDetail)]
                ELSE [turn EXCEPT ![t].pc = "persistErrYield",
                                  ![t].err = "Persistence",
                                  ![t].packets =
                                      Append(@, StreamingError("FailedToParseLLMOutput"))]
    /\ UNCHANGED <<req, limit, classifier, docloop, pruning>>

\* Resumed after the last packet of the persistence phase: the generator ends.
AfterFinalPacket(t) ==
    /\ turn[t].pc \in {"finalYield", "persistErrYield"}
    /\ Goto(t, "done")
    /\ UNCHANGED <<committed, db_session, nextId, req, limit, classifier, docloop, pruning>>

----------------------------------------------------------------------------
\* The consumer and the session.

Suspended(t) == turn[t].pc \in {"yielded", "errYield", "finalYield", "persistErrYield"}
Over(t) == turn[t].pc \in {"done", "closed", "raised"}

\* The consumer stops: GeneratorExit is raised at the yield the generator is
\* suspended at.  It is no Exception, so neither handler runs.
\* (CloseCaught: the close at a yield of the loop is handled as an exception
\* of the generation phase.)
CloseCaught(t) ==
    /\ Suspended(t)
    /\ LET tr == [turn[t] EXCEPT !.closed_at = turn[t].pc,
                                 !.closed_len = Len(turn[t].consumed)]
       IN
       turn' = [turn EXCEPT ![t] =
                   IF turn[t].pc = "yielded"
                   THEN Handler(tr, "AnswerEngine", PlainText, FALSE)
                   ELSE [tr EXCEPT !.pc = "closed"]]
    /\ UNCHANGED <<committed, db_session, nextId, req, limit, classifier, docloop, pruning>>
Close(t) ==
    /\ Suspended(t)
    /\ turn' = [turn EXCEPT ![t].pc = "closed",
                            ![t].closed_at = turn[t].pc,
                            ![t].closed_len = Len(turn[t].consumed)]
    /\ UNCHANGED <<committed, db_session, nextId, req, limit, classifier, docloop, pruning>>

\* Lines 642-651: leaving the with block closes the session, and what is
\* still pending in it is dropped.
SessionExit(t) ==
    /\ Over(t)
    /\ db_session[t].open
    /\ db_session' = [db_session EXCEPT ![t] = [open |-> FALSE, pending |-> {}]]
    /\ UNCHANGED <<committed, nextId, req, turn, limit, classifier, docloop, pruning>>

----------------------------------------------------------------------------

Next ==
    \E t \in Turns :
        \/ GetSession(t)
        \/ CheckDocsOrOptions(t)
        \/ GetLlms(t)
        \/ GetParent(t)
        \/ CreateUserMessage(t)
        \/ UseExistingUserMessage(t)
        \/ LoadFiles(t)
        \/ CheckPrompt(t)
        \/ ConfigureTools(t)
        \/ NextEvent(t)
        \/ EventRaises(t)
        \/ EndOfEvents(t)
        \/ AfterStreamingError(t)
        \/ Persist(t)
        \/ AfterFinalPacket(t)
        \/ Close(t)
        \/ SessionExit(t)

\* One turn on a conversation.
Spec == Init /\ [][Next]_vars

\* Two turns on the same conversation, each in its own session.
ConcurrentRequests ==
    {r \in Requests : r.search_doc_ids = "None" /\ r.retrieval_options = "set"}

InitConcurrent ==
    /\ committed \in InitialStores
    /\ nextId = SetMax(Ids(committed)) + 1
    /\ db_session = [t \in Turns |-> NewSession]
    /\ req \in [Turns -> ConcurrentRequests]
    /\ turn = [t \in Turns |-> NewTurn("start", committed)]
    /\ limit = MaxEventsConcurrent
    /\ classifier = NoException
    /\ docloop = NoDocLoop
    /\ pruning = NoPruning

SpecConcurrent == InitConcurrent /\ [][Next]_vars

----------------------------------------------------------------------------
\* Vocabulary of the properties.

Last(seq) == seq[Len(seq)]
CountKind(seq, kind) == Cardinality({i \in DOMAIN seq : seq[i].kind = kind})
IsTerminal(p) == p.kind \in {"FinalMessageDetail", "StreamingError"}
EndsWith(t, kind) == turn[t].packets # <<>> /\ Last(turn[t].packets).kind = kind

\* The messages turn t created, among msgs.
NewBy(msgs, t, type) == {m \in msgs : m.by = t /\ m.type = type}

ConfigurationErrors == {"LLMDisabled", "NoPrompt", "ImageCredential", "InternetSearchKey"}
OtherGenerationErrors ==
    {"SessionLookup", "ParentLookup", "ChainIntegrity", "InvalidRegeneration",
     "Files", "ToolConfiguration", "AnswerEngine"}
GenerationErrors == ConfigurationErrors \cup OtherGenerationErrors \cup {"NoDocsOrOptions"}

----------------------------------------------------------------------------
\* C1: in every turn, a FinalMessageDetail or StreamingError packet is the
\* last packet of the stream: at most one of the two kinds occurs, once, and
\* nothing is emitted after it.
C1_TerminalPacketIsLast ==
    \A t \in Turns :
        \A i \in DOMAIN turn[t].packets :
            IsTerminal(turn[t].packets[i]) => i = Len(turn[t].packets)

\* A turn that streamed packets, failed, and was consumed to its end.
C1_Witness ==
    /\ turn[1].pc = "done"
    /\ Len(turn[1].packets) >= 2
    /\ EndsWith(1, "StreamingError")

\* C2: in the committed store, a user message created by a turn is there
\* if and only if the assistant reply of that turn is there.
C2_UserVisibleIffReplyVisible ==
    \A t \in Turns :
        /\ \A u \in NewBy(committed, t, "USER") :
              \E a \in NewBy(committed, t, "ASSISTANT") : a.parent = u.id
        /\ ~req[t].use_existing_user_message =>
              \A a \in NewBy(committed, t, "ASSISTANT") :
                  \E u \in NewBy(committed, t, "USER") : a.parent = u.id

\* The turn's user message is committed (with its reply).
C2_Witness ==
    /\ NewBy(committed, 1, "USER") # {}
    /\ turn[1].pc = "done"

\* C3: a turn that raised in the generation phase and ran to its end leaves
\* as many messages in the store as there were before it, committed and
\* pending.
C3_FailedTurnLeavesCountUnchanged ==
    \A t \in Turns :
        turn[t].err \in GenerationErrors =>
            /\ Cardinality(committed) = turn[t].count0
            /\ turn[t].pc \in {"done", "raised"} =>
                  Cardinality(View(t)) = turn[t].count0

\* A turn that failed after its user message was inserted, consumed to the end.
C3_Witness ==
    /\ turn[1].pc = "done"
    /\ turn[1].user_message # NoId
    /\ turn[1].err \in {"Files", "ToolConfiguration", "AnswerEngine"}
    /\ turn[1].consumed # <<>>

\* C4 as stated: a turn whose stream ends with FinalMessageDetail leaves
\* exactly one new user message and one new assistant message whose parent
\* is that user message, in the normal and in the regeneration flow.
C4_OneNewUserAndOneNewAssistant ==
    \A t \in Turns :
        EndsWith(t, "FinalMessageDetail") =>
            /\ Cardinality(NewBy(committed, t, "USER")) = 1
            /\ Cardinality(NewBy(committed, t, "ASSISTANT")) = 1
            /\ \A a \in NewBy(committed, t, "ASSISTANT") :
                  \A u \in NewBy(committed, t, "USER") : a.parent = u.id

\* C4, amended: a turn whose stream ends with FinalMessageDetail leaves
\* exactly one new assistant message, whose parent is the user message the
\* turn answers; in the normal flow that user message is the one new user
\* message of the turn, in the regeneration flow it is the user message
\* that was the mainline leaf before the turn and no user message is new.
C4_OneNewAssistantUnderTheUserMessage ==
    \A t \in Turns :
        EndsWith(t, "FinalMessageDetail") =>
            /\ Cardinality(NewBy(committed, t, "ASSISTANT")) = 1
            /\ \A a \in NewBy(committed, t, "ASSISTANT") :
                  /\ a.parent = turn[t].final_msg
                  /\ a.parent \in Ids(committed)
                  /\ MsgOf(committed, a.parent).type = "USER"
            /\ IF req[t].use_existing_user_message
               THEN /\ NewBy(committed, t, "USER") = {}
                    /\ MsgOf(committed, turn[t].final_msg).by = 0
               ELSE /\ Cardinality(NewBy(committed, t, "USER")) = 1
                    /\ \A u \in NewBy(committed, t, "USER") : u.id = turn[t].final_msg

\* A regeneration turn that succeeded.
C4_Witness ==
    /\ req[1].use_existing_user_message
    /\ EndsWith(1, "FinalMessageDetail")
    /\ turn[1].pc = "done"

C6_ConcurrentTurnsNeverBothInsert ==
    \A u1 \in NewBy(committed, 1, "USER") :
        \A u2 \in NewBy(committed, 2, "USER") :
            u1.parent # u2.parent

\* C7: an exception of the generation phase that is no configuration error
\* never leaves the generator: it becomes a StreamingError packet, wherever
\* it is raised.
C7_GenerationErrorsBecomePackets ==
    \A t \in Turns :
        turn[t].err \in OtherGenerationErrors =>
            /\ turn[t].pc # "raised"
            /\ CountKind(turn[t].packets, "StreamingError") = 1

C10_OneStreamingErrorThenRolledBack ==
    \A t \in Turns :
        (turn[t].err \in GenerationErrors /\ Over(t)) =>
            /\ CountKind(turn[t].packets, "StreamingError") = 1
            /\ EndsWith(t, "StreamingError")
            /\ db_session[t].pending = {}

\* C11: on a failure of the persistence phase the provisional writes are
\* rolled back and exactly one StreamingError packet is emitted, whose
\* message is none of the generation phase's; no further answer-engine
\* event is consumed.
C11_PersistenceFailureRollsBack ==
    \A t \in Turns :
        turn[t].err = "Persistence" =>
            /\ CountKind(turn[t].packets, "StreamingError") = 1
            /\ Last(turn[t].packets) = StreamingError("FailedToParseLLMOutput")
            /\ db_session[t].pending = {}
            /\ NewBy(committed, t, "USER") = {}
            /\ NewBy(committed, t, "ASSISTANT") = {}

----------------------------------------------------------------------------
\* The two handlers on the text of the exception (lines 559-581, 628-632).
\* A text is a sequence of pieces: letters of the API key in either case,
\* another letter, and the two markers the handler looks for.

MaxTextLen == 2

BearerMarker == "Illegal header value b'Bearer  '"
EncodingMarker ==
    "Invalid leading whitespace, reserved character(s), or return character(s) in header value"

TextPieces == {"k", "K", "x", BearerMarker, EncodingMarker}
SeqsUpTo(S, n) == UNION {[1..m -> S] : m \in 0..n}
Texts == SeqsUpTo(TextPieces, MaxTextLen)

\* llm.config.api_key: <<>> stands for a key that is None or empty.
ApiKeys == {<<>>, <<"k">>, <<"K">>, <<"k", "K">>}
model_provider == "openai"

\* str.lower() and the `in` of two strings.
LowerPiece(c) == IF c = "K" THEN "k" ELSE c
Lower(s) == [i \in DOMAIN s |-> LowerPiece(s[i])]
Contains(s, sub) ==
    \E i \in 1..(Len(s) - Len(sub) + 1) : SubSeq(s, i, i + Len(sub) - 1) = sub

\* The three tests of lines 563, 568-571 and 576 on the text.
TextFlags(error_msg, api_key) ==
    [bearer |-> Contains(error_msg, <<BearerMarker>>),
     encoding |-> Contains(error_msg, <<EncodingMarker>>),
     key |-> Contains(Lower(error_msg), Lower(api_key))]

\* The message of each class (lines 564-567, 572-575, 577, 579).
ErrorMessage(class, provider) ==
    CASE class = "AuthInvalidOrEmptyKey" ->
            <<"Authentication error: Invalid or empty API key provided for '", provider,
              "'. Please check your API key configuration.">>
      [] class = "AuthInvalidKeyFormat" ->
            <<"Authentication error: Invalid API key format for '", provider,
              "'. Please ensure your API key does not contain leading/trailing whitespace or invalid characters.">>
      [] class = "InvalidApiKey" ->
            <<"LLM failed to respond. Invalid API key error from '", provider, "'.">>
      [] OTHER ->
            <<"An unexpected error occurred while processing your request. Please try again later.">>

\* Lines 560-581: the text of the StreamingError of the generation phase.
\* (GenerationErrorTextRaw: str(e) is kept when no test matches.)
GenerationErrorTextRaw(error_msg, api_key, provider) ==
    LET class == Classify(TextFlags(error_msg, api_key), api_key # <<>>) IN
    IF class = "Unexpected" THEN error_msg ELSE ErrorMessage(class, provider)
GenerationErrorText(error_msg, api_key, provider) ==
    ErrorMessage(Classify(TextFlags(error_msg, api_key), api_key # <<>>), provider)

\* Line 632.
PersistenceErrorText == <<"Failed to parse LLM output">>

InitClassifier ==
    /\ committed = {RootMsg}
    /\ nextId = 1
    /\ db_session = [t \in Turns |-> NewSession]
    /\ req = [t \in Turns |-> DefaultRequest]
    /\ turn = [t \in Turns |-> NewTurn("off", committed)]
    /\ limit = 0
    /\ docloop = NoDocLoop
    /\ pruning = NoPruning
    /\ \E phase \in {"generation", "persistence"}, error_msg \in Texts, api_key \in ApiKeys :
          classifier = [stage |-> "raised", phase |-> phase, error_msg |-> error_msg,
                        api_key |-> api_key, error |-> <<>>]

\* The except block the exception reaches builds the packet's text.
HandleException ==
    /\ classifier.stage = "raised"
    /\ classifier' =
          [classifier EXCEPT
              !.stage = "yielded",
              !.error = IF classifier.phase = "generation"
                        THEN GenerationErrorText(classifier.error_msg,
                                                 classifier.api_key, model_provider)
                        ELSE PersistenceErrorText]
    /\ UNCHANGED <<committed, db_session, nextId, req, turn, limit, docloop, pruning>>

SpecClassifier == InitClassifier /\ [][HandleException]_vars

\* C12: the API key is in the text of no StreamingError packet: whatever
\* the exception text, also one that holds the key in another letter case,
\* the packet's text holds neither the key nor any piece of the exception
\* text, and in the generation phase it is one of the four templates.
C12_KeyNeverInStreamingError ==
    classifier.stage = "yielded" =>
        /\ classifier.api_key # <<>> =>
              ~Contains(Lower(classifier.error), Lower(classifier.api_key))
        /\ \A i \in DOMAIN classifier.error_msg, j \in DOMAIN classifier.error :
              classifier.error_msg[i] # classifier.error[j]
        /\ classifier.phase = "generation" =>
              classifier.error \in
                  {ErrorMessage(c, model_provider) :
                      c \in {"AuthInvalidOrEmptyKey", "AuthInvalidKeyFormat",
                             "InvalidApiKey", "Unexpected"}}

\* The key is in the exception text in another letter case than the
\* configured one, and the packet's text is built.
C12_Witness ==
    /\ classifier.stage = "yielded"
    /\ classifier.phase = "generation"
    /\ classifier.api_key = <<"k">>
    /\ classifier.error_msg = <<"x", "K">>
    /\ classifier.error = ErrorMessage("InvalidApiKey", model_provider)


\* C13: a consumer that stops at a yield of the generation loop is not
\* answered with an error: the generator ends there, with no StreamingError
\* packet, no event consumed after the stop, no assistant message created
\* and nothing of the turn committed.
C13_CloseIsNotMaskedAsError ==
    \A t \in Turns :
        turn[t].closed_at = "yielded" =>
            /\ turn[t].pc = "closed"
            /\ turn[t].err = "none"
            /\ CountKind(turn[t].packets, "StreamingError") = 0
            /\ Len(turn[t].consumed) = turn[t].closed_len
            /\ NewBy(View(t), t, "ASSISTANT") = {}
            /\ NewBy(committed, t, "USER") = {}
            /\ Cardinality(committed) = turn[t].count0

\* The consumer stopped after the first packet of a turn that had inserted
\* its user message and could have consumed more events; the session is
\* closed since.
C13_Witness ==
    /\ turn[1].closed_at = "yielded"
    /\ turn[1].user_message # NoId
    /\ Len(turn[1].packets) = 1
    /\ Len(turn[1].consumed) < limit
    /\ ~db_session[1].open

\* C14: in the regeneration flow, a mainline leaf that is no user message
\* makes the turn fail with the invalid-regeneration error: no user message
\* and no assistant message is created, no event is consumed, nothing is
\* committed, and the one packet is the StreamingError.
C14_RegenerationNeedsUserLeaf ==
    \A t \in Turns :
        (/\ req[t].use_existing_user_message
         /\ turn[t].prior_leaf # NoId
         /\ MsgOf(committed, turn[t].prior_leaf).type # "USER") =>
            /\ turn[t].err = "InvalidRegeneration"
            /\ turn[t].pc \in {"errYield", "done", "closed"}
            /\ turn[t].packets = <<StreamingError("Unexpected")>>
            /\ turn[t].user_message = NoId
            /\ NewBy(View(t), t, "USER") = {}
            /\ NewBy(View(t), t, "ASSISTANT") = {}
            /\ turn[t].consumed = <<>>
            /\ Cardinality(committed) = turn[t].count0

\* The regeneration of a conversation whose leaf is an assistant message
\* has failed and the generator has ended.
C14_Witness ==
    /\ req[1].use_existing_user_message
    /\ turn[1].prior_leaf = SeedAssistant.id
    /\ turn[1].err = "InvalidRegeneration"
    /\ turn[1].pc = "done"


\* The file ids of all ImageGenerationDisplay packets of a stream.
PacketFileIds(packets) == UNION {packets[i].file_ids : i \in DOMAIN packets}

\* The reply turn t has committed.
CommittedReply(t) == NewBy(committed, t, "ASSISTANT")

\* C15: in a successful turn, every file id of every ImageGenerationDisplay
\* packet of the turn is among the files of the assistant message.
C15_AllImageFilesAttached ==
    \A t \in Turns :
        EndsWith(t, "FinalMessageDetail") =>
            \A m \in CommittedReply(t) : PacketFileIds(turn[t].packets) \subseteq m.files

\* C20: the assistant message has a tool-call record only if exactly one
\* final tool-call result came in the turn, and none with no such event.
C20_ToolCallOnlyForExactlyOneResult ==
    \A t \in Turns :
        \A m \in CommittedReply(t) :
            /\ m.tool_calls # {} => CountKind(turn[t].packets, "tool_call_final_result") = 1
            /\ CountKind(turn[t].packets, "tool_call_final_result") = 0 => m.tool_calls = {}


\* C17: a LLMRelevanceFilterResponse packet is emitted only if a
\* document-search summary was consumed before a relevance event of the
\* turn; internet-search events do not count.
C17_RelevanceOnlyAfterSearchSummary ==
    \A t \in Turns :
        CountKind(turn[t].packets, "LLMRelevanceFilterResponse") > 0 =>
            \E i, j \in DOMAIN turn[t].consumed :
                /\ i < j
                /\ turn[t].consumed[i] = "search_summary"
                /\ turn[t].consumed[j] = "section_relevance"

\* The packet an event is passed on as: its kind and, for the two document
\* packets, the search it is of.  A relevance event gives a packet only
\* after an event that set the documents; another tool response gives none.
ExpectedOf(e, docs_seen) ==
    CASE e = "search_summary" -> <<<<"QADocsResponse", "search">>>>
      [] e = "internet_search" -> <<<<"QADocsResponse", "internet">>>>
      [] e = "image_generation" -> <<<<"ImageGenerationDisplay", "-">>>>
      [] e = "custom_tool" -> <<<<"CustomToolResponse", "-">>>>
      [] e = "section_relevance" ->
            IF docs_seen THEN <<<<"LLMRelevanceFilterResponse", "-">>>> ELSE <<>>
      [] e = "other_tool" -> <<>>
      [] OTHER -> <<<<e, "-">>>>

RECURSIVE ExpectedPackets(_, _)
ExpectedPackets(events, docs_seen) ==
    IF events = <<>> THEN <<>>
    ELSE ExpectedOf(Head(events), docs_seen) \o
         ExpectedPackets(Tail(events),
                         docs_seen \/ Head(events) \in {"search_summary", "internet_search"})

NonTerminal(p) == ~IsTerminal(p)
Emitted(t) ==
    LET ps == SelectSeq(turn[t].packets, NonTerminal) IN
    [i \in DOMAIN ps |-> <<ps[i].kind, ps[i].info>>]

\* C18: at every moment the packets emitted before the terminal packet are
\* the packets of the events consumed so far, in the order of the events,
\* one for each event that gives a packet: none held back, none twice, none
\* out of order.
C18_PacketsInEventOrder ==
    \A t \in Turns : Emitted(t) = ExpectedPackets(turn[t].consumed, FALSE)

\* An event that gives no packet and one that gives one have been consumed,
\* and the stream went on to its final packet.
C18_Witness ==
    /\ turn[1].consumed = <<"other_tool", "answer_piece">>
    /\ Len(turn[1].packets) = 2
    /\ EndsWith(1, "FinalMessageDetail")

\* C19: rows of the turn are committed only in the persistence phase, after
\* the event loop has ended without an exception, and then the assistant
\* message together with the user message; the FinalMessageDetail packet
\* follows that commit and every packet of the events.
C19_CommitOnlyAfterGeneration ==
    \A t \in Turns :
        /\ (NewBy(committed, t, "USER") \cup NewBy(committed, t, "ASSISTANT") # {}) =>
              /\ turn[t].pc \in {"finalYield", "persistErrYield", "done", "closed"}
              /\ turn[t].err \in {"none", "Persistence"}
              /\ Cardinality(NewBy(committed, t, "ASSISTANT")) = 1
              /\ \A a \in NewBy(committed, t, "ASSISTANT") : a.parent = turn[t].final_msg
              /\ turn[t].final_msg \in Ids(committed)
              /\ db_session[t].pending = {}
        /\ CountKind(turn[t].packets, "FinalMessageDetail") > 0 =>
              /\ turn[t].err = "none"
              /\ NewBy(committed, t, "ASSISTANT") # {}
              /\ EndsWith(t, "FinalMessageDetail")
              /\ Len(turn[t].packets) = Len(ExpectedPackets(turn[t].consumed, FALSE)) + 1

\* A new user message and its reply are committed after two events, and
\* the final packet is out.
C19_Witness ==
    /\ ~req[1].use_existing_user_message
    /\ Len(turn[1].consumed) = 2
    /\ NewBy(committed, 1, "USER") # {}
    /\ NewBy(committed, 1, "ASSISTANT") # {}
    /\ turn[1].pc = "finalYield"


----------------------------------------------------------------------------
\* The document variables of the loop (lines 478-521 and 538-546) with the
\* documents themselves.  A document is <<document_id, chunk_ind>>; indices
\* are counted from 0 as in the code, so index i is the element i + 1.

MaxDocs == 3
MaxDocEvents == 3

DocumentIds == {"A", "B"}
ChunkInds == {0, 1}
Docs == DocumentIds \X ChunkInds

\* The lists a search can return: no document twice.
DocLists ==
    {l \in SeqsUpTo(Docs, MaxDocs) : \A i, j \in DOMAIN l : i # j => l[i] # l[j]}

\* The elements of l at the places in keep, in their order.
RECURSIVE Pick(_, _, _)
Pick(l, keep, i) ==
    IF i > Len(l) THEN <<>>
    ELSE (IF i \in keep THEN <<l[i]>> ELSE <<>>) \o Pick(l, keep, i + 1)

\* dedupe_documents: of the chunks of one document the first stays; returns
\* the list left and the indices dropped from the list given.
FirstOfDocument(l) == {i \in DOMAIN l : \A j \in 1..(i - 1) : l[j][1] # l[i][1]}
dedupe_documents(l) ==
    [deduped |-> Pick(l, FirstOfDocument(l), 1),
     dropped |-> {i - 1 : i \in DOMAIN l \ FirstOfDocument(l)}]

\* _handle_search_tool_response_summary (lines 486-498): the documents
\* left after the optional deduplication, and the indices it dropped.
handle_search_tool_response_summary(top_docs, dedupe_docs) ==
    IF dedupe_docs
    THEN [reference_db_search_docs |-> dedupe_documents(top_docs).deduped,
          dropped_indices |-> dedupe_documents(top_docs).dropped]
    ELSE [reference_db_search_docs |-> top_docs, dropped_indices |-> {}]

\* relevant_documents_to_indices: the indices in search_docs of the
\* documents judged relevant.
relevant_documents_to_indices(relevance_sections, search_docs) ==
    {i - 1 : i \in {j \in DOMAIN search_docs : search_docs[j] \in relevance_sections}}

\* drop_llm_indices: the indices become one flag for each place of
\* search_docs, the flags at the dropped places are taken out, and the
\* places of the flags left that are set are returned.
drop_llm_indices(llm_indices, search_docs, dropped_indices) ==
    LET kept == {p \in 0..(Len(search_docs) - 1) : p \notin dropped_indices} IN
    {Cardinality({q \in kept : q < p}) : p \in kept \cap llm_indices}

\* Lines 503-521: the indices of the LLMRelevanceFilterResponse packet.
relevance_indices(relevance_sections, search_docs, dropped_indices) ==
    LET llm_indices == relevant_documents_to_indices(relevance_sections, search_docs) IN
    IF dropped_indices # {}
    THEN drop_llm_indices(llm_indices, search_docs, dropped_indices)
    ELSE llm_indices

\* Lines 478-482 and 496-498: the variables before the first event, and
\* the request's dedupe_docs.
InitDocs ==
    /\ committed = {RootMsg}
    /\ nextId = 1
    /\ db_session = [t \in Turns |-> NewSession]
    /\ req = [t \in Turns |-> DefaultRequest]
    /\ turn = [t \in Turns |-> NewTurn("off", committed)]
    /\ limit = 0
    /\ classifier = NoException
    /\ pruning = NoPruning
    /\ \E dedupe_docs \in BOOLEAN :
          docloop = [stage |-> "loop", dedupe_docs |-> dedupe_docs, events |-> 0,
                     has_docs |-> FALSE, reference_db_search_docs |-> <<>>,
                     docs_of |-> "none", dropped_indices |-> {},
                     top_docs |-> <<>>, relevance_sections |-> {},
                     last |-> "none", relevant_chunk_indices |-> {}]

DocEvent(last) ==
    [docloop EXCEPT !.events = @ + 1, !.last = last]

\* Lines 485-499.
SearchSummaryEvent ==
    /\ docloop.stage = "loop"
    /\ docloop.events < MaxDocEvents
    /\ \E top_docs \in DocLists :
          LET r == handle_search_tool_response_summary(top_docs, docloop.dedupe_docs) IN
          docloop' = [DocEvent("QADocsResponse") EXCEPT
                         !.has_docs = TRUE,
                         !.reference_db_search_docs = r.reference_db_search_docs,
                         !.dropped_indices = r.dropped_indices,
                         !.docs_of = "search",
                         !.top_docs = top_docs]
    /\ UNCHANGED <<committed, db_session, nextId, req, turn, limit, classifier, pruning>>

\* Lines 538-546: dropped_indices is not assigned.
InternetSearchEvent ==
    /\ docloop.stage = "loop"
    /\ docloop.events < MaxDocEvents
    /\ \E docs \in DocLists :
          docloop' = [DocEvent("QADocsResponse") EXCEPT
                         !.has_docs = TRUE,
                         !.reference_db_search_docs = docs,
                         !.docs_of = "internet",
                         !.top_docs = docs]
    /\ UNCHANGED <<committed, db_session, nextId, req, turn, limit, classifier, pruning>>

\* Lines 500-521.
SectionRelevanceEvent ==
    /\ docloop.stage = "loop"
    /\ docloop.events < MaxDocEvents
    /\ \E relevance_sections \in SUBSET Docs :
          docloop' =
              IF docloop.has_docs
              THEN [DocEvent("LLMRelevanceFilterResponse") EXCEPT
                       !.relevance_sections = relevance_sections,
                       !.relevant_chunk_indices =
                           relevance_indices(relevance_sections,
                                             docloop.reference_db_search_docs,
                                             docloop.dropped_indices)]
              ELSE DocEvent("none")
    /\ UNCHANGED <<committed, db_session, nextId, req, turn, limit, classifier, pruning>>

NextDocs == SearchSummaryEvent \/ InternetSearchEvent \/ SectionRelevanceEvent

SpecDocs == InitDocs /\ [][NextDocs]_vars

\* C16: after a deduplicating search summary, the indices of the relevance
\* packet are exactly the places, in the document list that was emitted, of
\* the documents kept and judged relevant; none is the place of another
\* document.
C16_RelevanceIndicesAreEmittedPositions ==
    (/\ docloop.stage = "loop"
     /\ docloop.last = "LLMRelevanceFilterResponse"
     /\ docloop.docs_of = "search") =>
        docloop.relevant_chunk_indices =
            {i - 1 : i \in {j \in DOMAIN docloop.reference_db_search_docs :
                               docloop.reference_db_search_docs[j] \in
                                   docloop.relevance_sections}}


\* C21: the text of the generation-phase packet is picked by the first rule
\* that matches, in the order bearer marker, encoding marker, API key in
\* any letter case, else the generic text, also when the exception text
\* matches several rules; the packet of the persistence phase has its own
\* text whatever the exception text.
C21_FirstMatchingRuleClassifies ==
    classifier.stage = "yielded" =>
        LET error_msg == classifier.error_msg
            api_key == classifier.api_key
            rule == IF Contains(error_msg, <<BearerMarker>>) THEN 1
                    ELSE IF Contains(error_msg, <<EncodingMarker>>) THEN 2
                    ELSE IF api_key # <<>> /\ Contains(Lower(error_msg), Lower(api_key))
                    THEN 3
                    ELSE 4
            class == CASE rule = 1 -> "AuthInvalidOrEmptyKey"
                       [] rule = 2 -> "AuthInvalidKeyFormat"
                       [] rule = 3 -> "InvalidApiKey"
                       [] OTHER -> "Unexpected"
        IN
        /\ classifier.phase = "generation" =>
              classifier.error = ErrorMessage(class, model_provider)
        /\ classifier.phase = "persistence" =>
              classifier.error = PersistenceErrorText

\* An exception text of the generation phase that matches rule 2 and then
\* rule 3 has been classified by rule 2.
C21_Witness ==
    /\ classifier.stage = "yielded"
    /\ classifier.phase = "generation"
    /\ classifier.api_key = <<"k">>
    /\ classifier.error_msg = <<EncodingMarker, "K">>
    /\ classifier.error = ErrorMessage("AuthInvalidKeyFormat", model_provider)


\* C24: in a turn consumed to its end, messages of the turn are committed
\* if and only if the stream ends with FinalMessageDetail; a stream that
\* ends with StreamingError leaves no message of the turn committed.
C24_CommittedIffFinalMessageDetail ==
    \A t \in Turns :
        turn[t].pc = "done" =>
            /\ (NewBy(committed, t, "ASSISTANT") # {}) <=> EndsWith(t, "FinalMessageDetail")
            /\ EndsWith(t, "StreamingError") =>
                  NewBy(committed, t, "USER") \cup NewBy(committed, t, "ASSISTANT") = {}

\* C25: a relevance event on a document list installed by an internet
\* search finds no dropped indices to apply (lines 512-517 run exactly when
\* dropped_indices is not empty): those of an earlier search summary are
\* gone with its list.
C25_DroppedIndicesBelongToCurrentDocs ==
    (/\ docloop.stage = "loop"
     /\ docloop.last = "LLMRelevanceFilterResponse"
     /\ docloop.docs_of = "internet") =>
        docloop.dropped_indices = {}


----------------------------------------------------------------------------
\* The documents the answer is built on (lines 275-316) and the citation
\* configuration (lines 453-455), for a request that has passed line 163.

MaxRefs == 3

SearchDocIds == {1, 2, 3}

\* new_msg_req.search_doc_ids: None, or a list of ids.
ReferenceDocIds ==
    {[is_none |-> TRUE, ids |-> <<>>]} \cup
    {[is_none |-> FALSE, ids |-> l] : l \in SeqsUpTo(SearchDocIds, MaxRefs)}

\* persona.num_chunks and default_num_chunks are floats, counted in tenths
\* here; NoNumChunks is a persona with num_chunks None.
NoNumChunks == -1
NumChunks == {NoNumChunks, 0, 15, 20}
DefaultNumChunks == {5, 100}

\* int() of a float that is not negative.
int(tenths) == tenths \div 10

\* Line 277: `if reference_doc_ids:` holds for a list that is not empty.
\* (GivenIds: `if reference_doc_ids is not None:` instead.)
GivenIds(reference_doc_ids) == ~reference_doc_ids.is_none
Truthy(reference_doc_ids) ==
    ~reference_doc_ids.is_none /\ reference_doc_ids.ids # <<>>

\* get_db_search_doc_by_id: the row of that id, or None.
get_db_search_doc_by_id(doc_id, storage) ==
    IF doc_id \in storage THEN doc_id ELSE NoId

IsRow(db_sd) == db_sd # NoId

\* Lines 297-304: the rows of the requested ids, in the order of the
\* request, without those that are gone.
\* (db_search_docs_or_none: the list of line 297, not filtered.)
db_search_docs_or_none(ids, storage) ==
    [i \in DOMAIN ids |-> get_db_search_doc_by_id(ids[i], storage)]
selected_db_search_docs(ids, storage) ==
    SelectSeq([i \in DOMAIN ids |-> get_db_search_doc_by_id(ids[i], storage)], IsRow)

InitPruning ==
    /\ committed = {RootMsg}
    /\ nextId = 1
    /\ db_session = [t \in Turns |-> NewSession]
    /\ req = [t \in Turns |-> DefaultRequest]
    /\ turn = [t \in Turns |-> NewTurn("off", committed)]
    /\ limit = 0
    /\ classifier = NoException
    /\ docloop = NoDocLoop
    /\ \E reference_doc_ids \in ReferenceDocIds, storage \in SUBSET SearchDocIds,
          num_chunks \in NumChunks, default_num_chunks \in DefaultNumChunks,
          chunks_above \in 0..1, chunks_below \in 0..1 :
          pruning = [stage |-> "files_loaded",
                     reference_doc_ids |-> reference_doc_ids, storage |-> storage,
                     num_chunks |-> num_chunks,
                     default_num_chunks |-> default_num_chunks,
                     chunks_above |-> chunks_above, chunks_below |-> chunks_below,
                     selected_is_none |-> TRUE, selected_db_search_docs |-> <<>>,
                     document_pruning_config |-> [unset |-> TRUE],
                     all_docs_useful |-> FALSE]

\* Lines 275-316: selected_db_search_docs stays None in the else branch;
\* document_pruning_config holds the arguments of the constructor call.
SelectDocuments ==
    /\ pruning.stage = "files_loaded"
    /\ pruning' =
          IF Truthy(pruning.reference_doc_ids)
          THEN [pruning EXCEPT
                   !.stage = "configured",
                   !.document_pruning_config = [is_manually_selected_docs |-> TRUE],
                   !.selected_is_none = FALSE,
                   !.selected_db_search_docs =
                       selected_db_search_docs(pruning.reference_doc_ids.ids,
                                               pruning.storage)]
          ELSE [pruning EXCEPT
                   !.stage = "configured",
                   !.document_pruning_config =
                       [max_chunks |->
                            int(IF pruning.num_chunks # NoNumChunks
                                THEN pruning.num_chunks
                                ELSE pruning.default_num_chunks),
                        max_window_percentage |-> "max_document_percentage",
                        use_sections |->
                            pruning.chunks_above > 0 \/ pruning.chunks_below > 0]]
    /\ UNCHANGED <<committed, db_session, nextId, req, turn, limit, classifier, docloop>>

\* Lines 453-455.
BuildCitationConfig ==
    /\ pruning.stage = "configured"
    /\ pruning' = [pruning EXCEPT !.stage = "answer",
                                  !.all_docs_useful = ~pruning.selected_is_none]
    /\ UNCHANGED <<committed, db_session, nextId, req, turn, limit, classifier, docloop>>

NextPruning == SelectDocuments \/ BuildCitationConfig

SpecPruning == InitPruning /\ [][NextPruning]_vars

ManualMode == "is_manually_selected_docs" \in DOMAIN pruning.document_pruning_config
BudgetMode == "max_chunks" \in DOMAIN pruning.document_pruning_config

\* C22: once the pruning configuration is built, exactly one mode is
\* active: the manual mode if and only if the request has a list of
\* reference ids that is not empty, and then the citation configuration
\* marks all documents useful; else the budget mode, with max_chunks the
\* persona's num_chunks, or the default when it has none, as an integer,
\* and use_sections set if and only if chunks_above or chunks_below is
\* above 0.  An empty list gives the budget mode.
C22_ExactlyOnePruningMode ==
    pruning.stage \in {"configured", "answer"} =>
        /\ ManualMode # BudgetMode
        /\ ManualMode <=> (/\ ~pruning.reference_doc_ids.is_none
                           /\ Len(pruning.reference_doc_ids.ids) > 0)
        /\ ManualMode =>
              /\ pruning.document_pruning_config.is_manually_selected_docs
              /\ pruning.stage = "answer" => pruning.all_docs_useful
        /\ BudgetMode =>
              /\ pruning.document_pruning_config.max_chunks =
                    (IF pruning.num_chunks = NoNumChunks
                     THEN pruning.default_num_chunks ELSE pruning.num_chunks) \div 10
              /\ pruning.document_pruning_config.use_sections =
                    (pruning.chunks_above > 0 \/ pruning.chunks_below > 0)
              /\ pruning.stage = "answer" => ~pruning.all_docs_useful

\* A request with an empty list of reference ids has been configured, with
\* a persona that has a num_chunks of its own.
C22_Witness ==
    /\ pruning.stage = "answer"
    /\ ~pruning.reference_doc_ids.is_none
    /\ pruning.reference_doc_ids.ids = <<>>
    /\ pruning.num_chunks = 15
    /\ BudgetMode

\* The ids of l that are in S, in the order of l.
RECURSIVE Existing(_, _)
Existing(l, S) ==
    IF l = <<>> THEN <<>>
    ELSE (IF Head(l) \in S THEN <<Head(l)>> ELSE <<>>) \o Existing(Tail(l), S)

\* C23: in the manual mode the selected documents are exactly the requested
\* ids that are still in storage, in the order of the request; an id that
\* is gone is left out and the configuration goes on.
C23_SelectedAreTheExistingRequested ==
    (pruning.stage \in {"configured", "answer"} /\ ManualMode) =>
        /\ ~pruning.selected_is_none
        /\ pruning.selected_db_search_docs =
              Existing(pruning.reference_doc_ids.ids, pruning.storage)

\* Three ids were requested, the second of them is gone, and the two others
\* are selected.
C23_Witness ==
    /\ pruning.stage = "answer"
    /\ pruning.reference_doc_ids.ids = <<3, 1, 2>>
    /\ pruning.storage = {2, 3}
    /\ pruning.selected_db_search_docs = <<3, 2>>

====
